---- MODULE Spec2Model ----
(***************************************************************************)
(* The ShadowPay prover service (src/prover-service/index.js): an express  *)
(* application with a process-wide circuit cache, the endpoints /health,   *)
(* /prove, /verify and /circuits, and the artifact directory it reads.     *)
(*                                                                         *)
(* Granularity.  The service runs on the Node.js event loop: a handler     *)
(* runs without interruption from its start to the first promise that is   *)
(* settled by a later turn of the loop.  loadCircuit is an async function  *)
(* without an await of its own, so `await loadCircuit(..)` only defers to  *)
(* the microtask queue: the handler's code up to the call of               *)
(* snarkjs.groth16.fullProve / zKey.exportVerificationKey /                *)
(* groth16.verify is one step.  Each such snarkjs routine settles in a     *)
(* later turn, which is a step of its own.  Other requests and changes of  *)
(* the artifact directory interleave between steps.                        *)
(*                                                                         *)
(* Strings are sequences of tokens, so that String.replace and endsWith    *)
(* are computed, not assumed.                                              *)
(*                                                                         *)
(* Specifications.  Spec is the service.  SpecTwin is the service next to  *)
(* a twin of it that never receives the first request.  SpecCli is one run *)
(* of the command-line prover prove.js (src/unnamed/part_000).  SpecLedger *)
(* is the spend ledger behind the payment bots of the README.  Each one    *)
(* leaves the variables of the others as they start.                       *)
(***************************************************************************)
EXTENDS Integers, Sequences, FiniteSets, TLC

\* Number of /prove and /verify, /health, /circuits requests in one behaviour.
MaxReq == 2
\* Number of changes made to the artifact directory in one behaviour.
MaxFsChanges == 2
\* Number of command-line arguments given to prove.js in one run.
MaxArgs == 3
\* Number of payment attempts against one (wallet, serviceKey, day).
MaxCallers == 3
\* Largest amount, and largest limit of an authorization, in units.
MaxAmount == 3

VARIABLES
    circuits,   \* the Map `circuits`: entries [key, value] in insertion order
    nextId,     \* identity of the next object literal created by loadCircuit
    dirExists,  \* whether the circuit directory exists
    files,      \* content of each file of the circuit directory
    fsChanges,  \* number of directory changes so far (the directory's epoch)
    reqs,       \* the requests: body, position in the handler, response, log
    twin,       \* the service run again without its first request (see Twin)
    cli,        \* one run of the command-line prover prove.js
    ledger      \* the spend ledger of one (wallet, serviceKey, day)

vars == <<circuits, nextId, dirExists, files, fsChanges, reqs, twin, cli, ledger>>
service == <<circuits, nextId, dirExists, files, fsChanges, reqs>>

ReqIds == 1..MaxReq

-----------------------------------------------------------------------------
(* Values *)

\* The JavaScript value undefined (a field missing from the JSON body).
Undefined == <<"undefined">>

DefaultCircuitType == <<"spending">>
CircuitTypes == {<<"spending">>, <<"x", ".wasm", "y">>}

\* process.env.CIRCUIT_DIR || path.join(__dirname, 'circuits')
CircuitDir == <<"circuits">>

\* path.join(dir, name)
PathJoin(dir, name) == dir \o <<"/">> \o name

WasmPath(circuitType) == PathJoin(CircuitDir, circuitType \o <<".wasm">>)
ZkeyPath(circuitType) == PathJoin(CircuitDir, circuitType \o <<"_final.zkey">>)

\* Index of the first occurrence of tok in s, 0 when there is none.
IndexOf(s, tok) ==
    IF \E i \in 1..Len(s) : s[i] = tok
    THEN CHOOSE i \in 1..Len(s) : s[i] = tok /\ \A j \in 1..(i - 1) : s[j] # tok
    ELSE 0

\* String.prototype.replace(pattern, replacement) with a string pattern:
\* the first occurrence only.  The replacement is a sequence of tokens, the
\* empty string the empty sequence.
Replace(s, tok, rep) ==
    LET i == IndexOf(s, tok)
    IN  IF i = 0 THEN s
        ELSE SubSeq(s, 1, i - 1) \o rep \o SubSeq(s, i + 1, Len(s))

\* circuit.zkey.replace('_final.zkey', '_verification_key.json')
VKeyPath(zkey) == Replace(zkey, "_final.zkey", <<"_verification_key.json">>)

Paths ==
    UNION {{WasmPath(c), ZkeyPath(c), VKeyPath(ZkeyPath(c))} : c \in CircuitTypes}

\* What a file holds: nothing, what it should, or something unreadable.
Contents(p) ==
    IF \E c \in CircuitTypes : p = WasmPath(c)
    THEN {"absent", "ok"}
    ELSE {"absent", "ok", "bad"}

FileAt(fs, p) == IF p \in DOMAIN fs THEN fs[p] ELSE "absent"

\* fs.existsSync(p)
ExistsSync(fs, p) == FileAt(fs, p) # "absent"

-----------------------------------------------------------------------------
(* The Map `circuits` *)

MapHas(m, k) == \E i \in DOMAIN m : m[i].key = k
MapGet(m, k) == m[CHOOSE i \in DOMAIN m : m[i].key = k].value
MapSet(m, k, v) ==
    IF MapHas(m, k)
    THEN [i \in DOMAIN m |-> IF m[i].key = k THEN [key |-> k, value |-> v] ELSE m[i]]
    ELSE Append(m, [key |-> k, value |-> v])
\* Array.from(circuits.keys())
MapKeys(m) == [i \in DOMAIN m |-> m[i].key]

NoCircuit == [wasm |-> <<>>, zkey |-> <<>>, id |-> 0]
NoError == <<>>

\* One entry of a request's log: a routine it ran, on what, with what outcome.
Event(op, path, out) == [op |-> op, path |-> path, out |-> out]

Bool(b) == IF b THEN "true" ELSE "false"

-----------------------------------------------------------------------------
(* loadCircuit *)

\* The outcome of a call: what it returned or threw, the cache it leaves and
\* the storage accesses it made.

\* Lines 26-28: the circuit type is in the cache.
LoadHit(cache, circuitType) ==
    [threw |-> FALSE, error |-> NoError, circuit |-> MapGet(cache, circuitType),
     circuits |-> cache, io |-> <<>>]

\* Lines 30-57: the circuit type is not in the cache.
LoadMiss(cache, fs, circuitType, id) ==
    LET wasmPath == WasmPath(circuitType)
        zkeyPath == ZkeyPath(circuitType)
        circuit == [wasm |-> wasmPath, zkey |-> zkeyPath, id |-> id]
        sawWasm == Event("existsSync", wasmPath, Bool(ExistsSync(fs, wasmPath)))
        sawZkey == Event("existsSync", zkeyPath, Bool(ExistsSync(fs, zkeyPath)))
    IN  IF ~ExistsSync(fs, wasmPath)
        THEN [threw |-> TRUE, error |-> <<"WASM file not found: ">> \o wasmPath,
              circuit |-> NoCircuit, circuits |-> cache, io |-> <<sawWasm>>]
        ELSE IF ~ExistsSync(fs, zkeyPath)
        THEN [threw |-> TRUE, error |-> <<"ZKey file not found: ">> \o zkeyPath,
              circuit |-> NoCircuit, circuits |-> cache,
              io |-> <<sawWasm, sawZkey>>]
        ELSE [threw |-> FALSE, error |-> NoError, circuit |-> circuit,
              circuits |-> MapSet(cache, circuitType, circuit),
              io |-> <<sawWasm, sawZkey,
                       Event("circuits.set", circuitType, "ok")>>]

\* loadCircuit without the cache lookup of lines 26-28.
LoadCircuit_NoCacheCheck(cache, fs, circuitType, id) ==
    LoadMiss(cache, fs, circuitType, id)

\* loadCircuit checking the files before it looks into the cache.
LoadCircuit_CheckBeforeCache(cache, fs, circuitType, id) ==
    LET M == LoadMiss(cache, fs, circuitType, id)
    IN  IF M.threw \/ ~MapHas(cache, circuitType)
        THEN M
        ELSE [LoadHit(cache, circuitType) EXCEPT !.io = SubSeq(M.io, 1, 2)]

\* loadCircuit without the check of the proving key (lines 41-43).
LoadCircuit_WasmOnly(cache, fs, circuitType, id) ==
    LET all == [p \in DOMAIN fs |->
                    IF p = ZkeyPath(circuitType) /\ fs[p] = "absent"
                    THEN "bad" ELSE fs[p]]
        M == LoadMiss(cache, all, circuitType, id)
    IN  IF MapHas(cache, circuitType)
        THEN LoadHit(cache, circuitType)
        ELSE [M EXCEPT !.io = IF M.threw THEN M.io
                              ELSE <<M.io[1], M.io[3]>>]

\* loadCircuit putting the circuit into the cache before it checks the files.
LoadCircuit_SetBeforeCheck(cache, fs, circuitType, id) ==
    LET M == LoadMiss(cache, fs, circuitType, id)
        circuit == [wasm |-> WasmPath(circuitType),
                    zkey |-> ZkeyPath(circuitType), id |-> id]
    IN  IF MapHas(cache, circuitType)
        THEN LoadHit(cache, circuitType)
        ELSE [M EXCEPT !.circuits = MapSet(cache, circuitType, circuit)]

\* loadCircuit remembering a failed load: the circuit type stays marked as
\* missing, and later calls fail without looking at the files.
LoadCircuit_MemoizeFailure(cache, fs, circuitType, id) ==
    LET M == LoadMiss(cache, fs, circuitType, id)
    IN  IF MapHas(cache, circuitType)
        THEN IF MapGet(cache, circuitType) = NoCircuit
             THEN [threw |-> TRUE,
                   error |-> <<"WASM file not found: ">> \o WasmPath(circuitType),
                   circuit |-> NoCircuit, circuits |-> cache, io |-> <<>>]
             ELSE LoadHit(cache, circuitType)
        ELSE IF M.threw
        THEN [M EXCEPT !.circuits = MapSet(cache, circuitType, NoCircuit)]
        ELSE M

LoadCircuit(cache, fs, circuitType, id) ==
    IF MapHas(cache, circuitType)
    THEN LoadHit(cache, circuitType)
    ELSE LoadMiss(cache, fs, circuitType, id)

-----------------------------------------------------------------------------
(* snarkjs, as the service uses it *)

Signals == <<"signals">>
Junk == <<"junk">>
\* The proof of a satisfying witness under the proving key stored at zkey.
ProofOf(zkey) == <<"proof">> \o zkey
\* The verification key that belongs to the proving key stored at zkey.
VKeyOf(zkey) == <<"vkey">> \o zkey
NoKey == <<>>

\* snarkjs.groth16.fullProve(input, wasm, zkey): reads both files, computes
\* the witness and proves; throws when a file cannot be read or the witness
\* violates the circuit's constraints.
FullProve(input, wasm, zkey, fs) ==
    IF FileAt(fs, wasm) # "ok"
    THEN [threw |-> TRUE, error |-> <<"cannot read ">> \o wasm,
          proof |-> Undefined, publicSignals |-> Undefined]
    ELSE IF FileAt(fs, zkey) # "ok"
    THEN [threw |-> TRUE, error |-> <<"cannot read ">> \o zkey,
          proof |-> Undefined, publicSignals |-> Undefined]
    ELSE IF input # <<"sat">>
    THEN [threw |-> TRUE, error |-> <<"Assert Failed">>,
          proof |-> Undefined, publicSignals |-> Undefined]
    ELSE [threw |-> FALSE, error |-> NoError,
          proof |-> ProofOf(zkey), publicSignals |-> Signals]

\* snarkjs.zKey.exportVerificationKey(zkey)
ExportVerificationKey(zkey, fs) ==
    IF FileAt(fs, zkey) = "ok"
    THEN [threw |-> FALSE, error |-> NoError, vKey |-> VKeyOf(zkey)]
    ELSE [threw |-> TRUE, error |-> <<"cannot read ">> \o zkey, vKey |-> NoKey]

\* snarkjs.groth16.verify(vKey, publicSignals, proof): a function of its
\* arguments; throws on a value that is no proof object.
Groth16Verify(vKey, publicSignals, proof) ==
    IF proof = Junk
    THEN [threw |-> TRUE, error |-> <<"malformed proof">>, isValid |-> FALSE]
    ELSE [threw |-> FALSE, error |-> NoError,
          isValid |-> (\E z \in {ZkeyPath(c) : c \in CircuitTypes} :
                          vKey = VKeyOf(z) /\ proof = ProofOf(z))
                      /\ publicSignals = Signals]

-----------------------------------------------------------------------------
(* Requests and responses *)

NoBody ==
    [input |-> Undefined, proof |-> Undefined, publicSignals |-> Undefined,
     circuitType |-> Undefined]

\* const { ..., circuitType = 'spending' } = req.body
CircuitTypeOf(body) ==
    IF body.circuitType = Undefined THEN DefaultCircuitType ELSE body.circuitType

NoRes ==
    [status |-> 0, keys |-> {}, error |-> NoError, proof |-> Undefined,
     publicSignals |-> Undefined, valid |-> "none", circuits |-> {},
     loaded |-> <<>>]

\* res.status(code).json({ error })
ErrorRes(code, error) ==
    [NoRes EXCEPT !.status = code, !.keys = {"error"}, !.error = error]

\* The body of /prove without the public signals.
ProveRes_ProofOnly(proof, publicSignals) ==
    [NoRes EXCEPT !.status = 200, !.keys = {"metadata", "proof"},
                  !.proof = proof]

\* res.json({ proof, publicSignals, metadata }): JSON.stringify leaves out a
\* key whose value is undefined.
ProveRes(proof, publicSignals) ==
    [NoRes EXCEPT !.status = 200,
                  !.keys = {"metadata"}
                           \cup (IF proof = Undefined THEN {} ELSE {"proof"})
                           \cup (IF publicSignals = Undefined THEN {}
                                 ELSE {"publicSignals"}),
                  !.proof = proof, !.publicSignals = publicSignals]

\* res.json({ valid, metadata })
VerifyRes(isValid) ==
    [NoRes EXCEPT !.status = 200, !.keys = {"valid", "metadata"},
                  !.valid = Bool(isValid)]

IdleReq ==
    [route |-> "none", pc |-> "idle", body |-> NoBody, circuit |-> NoCircuit,
     vKey |-> NoKey, res |-> NoRes, log |-> <<>>, before |-> {},
     peers |-> {}, e0 |-> 0, e1 |-> 0, sent |-> 0]

\* The bodies of the POST requests: each field present or missing, witnesses
\* that satisfy the circuit or violate it, proofs well-formed or not.
ProveBodies ==
    {[NoBody EXCEPT !.input = i, !.circuitType = c] :
        i \in {<<"sat">>, <<"unsat">>}, c \in CircuitTypes}
    \cup {[NoBody EXCEPT !.input = <<"sat">>],
          [NoBody EXCEPT !.circuitType = DefaultCircuitType]}

VerifyBodies ==
    {[NoBody EXCEPT !.proof = p, !.publicSignals = Signals, !.circuitType = c] :
        p \in {Junk, ProofOf(ZkeyPath(DefaultCircuitType))}, c \in CircuitTypes}
    \cup {[NoBody EXCEPT !.proof = ProofOf(ZkeyPath(DefaultCircuitType)),
                         !.circuitType = DefaultCircuitType],
          [NoBody EXCEPT !.publicSignals = Signals,
                         !.circuitType = DefaultCircuitType]}

Done(i) == reqs[i].pc = "done"
DoneIds == {i \in ReqIds : Done(i)}

-----------------------------------------------------------------------------
(* Initial state *)

\* The deployment the service starts with: the default circuit has its
\* witness generator and proving key and no precomputed verification key;
\* no other circuit is deployed.
InitFiles ==
    [p \in Paths |->
        IF p \in {WasmPath(DefaultCircuitType), ZkeyPath(DefaultCircuitType)}
        THEN "ok" ELSE "absent"]

\* The service after line 20 and before its first request.
InitService ==
    /\ circuits = <<>>
    /\ nextId = 1
    /\ dirExists = TRUE
    /\ files = InitFiles
    /\ fsChanges = 0
    /\ reqs = [i \in ReqIds |-> IdleReq]

\* The twin before its first request: the service's initial state.
InitTwin == [circuits |-> <<>>, nextId |-> 1, reqs |-> [i \in ReqIds |-> IdleReq]]

\* No run of the command-line prover.
CliOff == [pc |-> "off"]
\* No ledger.
LedgerOff == [open |-> FALSE]

Init ==
    /\ InitService
    /\ twin = InitTwin
    /\ cli = CliOff
    /\ ledger = LedgerOff

-----------------------------------------------------------------------------
(* The artifact directory changes under the running service *)

FsWrite(p, content) ==
    /\ fsChanges < MaxFsChanges
    /\ dirExists
    /\ content # files[p]
    /\ files' = [files EXCEPT ![p] = content]
    /\ fsChanges' = fsChanges + 1
    /\ UNCHANGED <<circuits, nextId, dirExists, reqs>>

FsRemoveDir ==
    /\ fsChanges < MaxFsChanges
    /\ dirExists
    /\ dirExists' = FALSE
    /\ files' = [p \in Paths |-> "absent"]
    /\ fsChanges' = fsChanges + 1
    /\ UNCHANGED <<circuits, nextId, reqs>>

FsMakeDir ==
    /\ fsChanges < MaxFsChanges
    /\ ~dirExists
    /\ dirExists' = TRUE
    /\ fsChanges' = fsChanges + 1
    /\ UNCHANGED <<circuits, nextId, files, reqs>>

-----------------------------------------------------------------------------
(* Requests *)

\* Requests take the slots in order.
Free(i) ==
    /\ reqs[i].pc = "idle"
    /\ \A j \in ReqIds : j < i => reqs[j].pc # "idle"

\* The request POST route with the body `body`, before its handler runs.
Arrived(route, body) ==
    [IdleReq EXCEPT !.route = route, !.pc = "pending", !.body = body,
                    !.before = DoneIds, !.e0 = fsChanges]

\* A POST request arrives; express.json() reads its body, and the route's
\* handler runs in a later turn of the event loop.
Arrive(i, route, body) ==
    /\ Free(i)
    /\ reqs' = [reqs EXCEPT ![i] = Arrived(route, body)]
    /\ UNCHANGED <<circuits, nextId, dirExists, files, fsChanges>>

\* res.json(..) / res.status(..).json(..): one more response is sent.
Respond(r, res) ==
    [r EXCEPT !.pc = "done", !.res = res, !.e1 = fsChanges, !.sent = @ + 1]

\* The other requests in flight (arrived, not yet answered) when the handler
\* of request i runs.
InFlight(i) == {j \in ReqIds \ {i} : reqs[j].pc \notin {"idle", "done"}}


\* JSON.parse(fs.readFileSync(vKeyPath, 'utf8'))
ReadVKeyFile(fs, vKeyPath) ==
    IF FileAt(fs, vKeyPath) = "ok"
    THEN [threw |-> FALSE, error |-> NoError,
          vKey |-> VKeyOf(CHOOSE z \in {ZkeyPath(c) : c \in CircuitTypes} :
                              VKeyPath(z) = vKeyPath)]
    ELSE [threw |-> TRUE, error |-> <<"cannot parse ">> \o vKeyPath,
          vKey |-> NoKey]

\* The log entries of one call of loadCircuit.
LoadLog(circuitType, L) ==
    L.io \o <<Event("loadCircuit", circuitType,
                    IF L.threw THEN "threw" ELSE "returned")>>

\* The object literal of line 45 is a new object each time it is evaluated.
IdAfter(L, id) == IF ~L.threw /\ L.circuit.id = id THEN id + 1 ELSE id

\* The first step of /prove, loading the circuit before it looks at the body.
ProveHandler_LoadFirst(i) ==
    LET r == reqs[i]
        circuitType == CircuitTypeOf(r.body)
        L == LoadCircuit(circuits, files, circuitType, nextId)
        loaded == [r EXCEPT !.log = @ \o LoadLog(circuitType, L),
                            !.peers = InFlight(i)]
    IN  /\ r.pc = "pending"
        /\ r.route = "prove"
        /\ circuits' = L.circuits
        /\ nextId' = IdAfter(L, nextId)
        /\ reqs' = [reqs EXCEPT ![i] =
                IF L.threw
                THEN Respond(loaded, ErrorRes(500, L.error))
                ELSE IF r.body.input = Undefined
                THEN Respond(loaded, ErrorRes(400, <<"Missing input parameter">>))
                ELSE [loaded EXCEPT
                        !.pc = "proving",
                        !.circuit = L.circuit,
                        !.log = @ \o <<Event("fullProve", L.circuit.wasm,
                                             "called")>>]]
        /\ UNCHANGED <<dirExists, files, fsChanges>>

\* The handler of POST /prove calling fullProve whether or not loadCircuit
\* returned a circuit.
PostProve_ProveAnyway(r, cache, fs, id, peers) ==
    LET circuitType == CircuitTypeOf(r.body)
        L == LoadCircuit(cache, fs, circuitType, id)
        loaded == [r EXCEPT !.log = @ \o LoadLog(circuitType, L),
                            !.peers = peers]
    IN  IF r.body.input = Undefined
        THEN [req |-> Respond(r, ErrorRes(400, <<"Missing input parameter">>)),
              circuits |-> cache, nextId |-> id]
        ELSE [req |-> [loaded EXCEPT
                          !.pc = "proving",
                          !.circuit = L.circuit,
                          !.log = @ \o <<Event("fullProve", L.circuit.wasm,
                                               "called")>>],
              circuits |-> L.circuits, nextId |-> IdAfter(L, id)]

\* The handler of POST /prove up to the call of fullProve, run for request r
\* on the cache `cache` (next object identity id) and the directory fs: the
\* request, the cache and the next identity after it.
PostProve(r, cache, fs, id, peers) ==
    LET circuitType == CircuitTypeOf(r.body)
        L == LoadCircuit(cache, fs, circuitType, id)
        loaded == [r EXCEPT !.log = @ \o LoadLog(circuitType, L),
                            !.peers = peers]
    IN  IF r.body.input = Undefined
        THEN [req |-> Respond(r, ErrorRes(400, <<"Missing input parameter">>)),
              circuits |-> cache, nextId |-> id]
        ELSE [req |-> IF L.threw
                      THEN Respond(loaded, ErrorRes(500, L.error))
                      ELSE [loaded EXCEPT
                              !.pc = "proving",
                              !.circuit = L.circuit,
                              !.log = @ \o <<Event("fullProve", L.circuit.wasm,
                                                   "called")>>],
              circuits |-> L.circuits, nextId |-> IdAfter(L, id)]

\* POST /prove, up to the call of fullProve.
ProveHandler(i) ==
    LET S == PostProve(reqs[i], circuits, files, nextId, InFlight(i))
    IN  /\ reqs[i].pc = "pending"
        /\ reqs[i].route = "prove"
        /\ reqs' = [reqs EXCEPT ![i] = S.req]
        /\ circuits' = S.circuits
        /\ nextId' = S.nextId
        /\ UNCHANGED <<dirExists, files, fsChanges>>

\* The second step of /prove, marking the cached circuit's proving key as
\* unusable when the proof fails.
ProveFinish_PoisonOnFailure(i) ==
    LET r == reqs[i]
        P == FullProve(r.body.input, r.circuit.wasm, r.circuit.zkey, files)
        settled == [r EXCEPT
                      !.log = @ \o <<Event("fullProve.settled", r.circuit.wasm,
                                           IF P.threw THEN "rejected"
                                           ELSE "resolved")>>]
    IN  /\ r.pc = "proving"
        /\ reqs' = [reqs EXCEPT ![i] =
                IF P.threw
                THEN Respond(settled, ErrorRes(500, P.error))
                ELSE Respond(settled, ProveRes(P.proof, P.publicSignals))]
        /\ circuits' = IF P.threw
                       THEN MapSet(circuits, CircuitTypeOf(r.body),
                                   [r.circuit EXCEPT !.zkey = <<>>])
                       ELSE circuits
        /\ UNCHANGED <<nextId, dirExists, files, fsChanges>>

\* The second step of /prove, evicting the circuit when the proof fails.
ProveFinish_EvictOnFailure(i) ==
    LET r == reqs[i]
        P == FullProve(r.body.input, r.circuit.wasm, r.circuit.zkey, files)
        settled == [r EXCEPT
                      !.log = @ \o <<Event("fullProve.settled", r.circuit.wasm,
                                           IF P.threw THEN "rejected"
                                           ELSE "resolved")>>]
    IN  /\ r.pc = "proving"
        /\ reqs' = [reqs EXCEPT ![i] =
                IF P.threw
                THEN Respond(settled, ErrorRes(500, P.error))
                ELSE Respond(settled, ProveRes(P.proof, P.publicSignals))]
        /\ circuits' = IF P.threw
                       THEN SelectSeq(circuits,
                                      LAMBDA e : e.key # CircuitTypeOf(r.body))
                       ELSE circuits
        /\ UNCHANGED <<nextId, dirExists, files, fsChanges>>

\* The handler of POST /prove sending the success body and then, from its
\* catch block, the 500.
PostProveSettled_CatchAfterSend(r, fs) ==
    LET P == FullProve(r.body.input, r.circuit.wasm, r.circuit.zkey, fs)
        settled == [r EXCEPT
                      !.log = @ \o <<Event("fullProve.settled", r.circuit.wasm,
                                           IF P.threw THEN "rejected"
                                           ELSE "resolved")>>]
    IN  IF P.threw
        THEN Respond(settled, ErrorRes(500, P.error))
        ELSE Respond(Respond(settled, ProveRes(P.proof, P.publicSignals)),
                     ErrorRes(500, <<"Cannot set headers after they are sent">>))

\* The handler of POST /prove from the settling of fullProve to the
\* response, run for request r on the directory fs.
PostProveSettled(r, fs) ==
    LET P == FullProve(r.body.input, r.circuit.wasm, r.circuit.zkey, fs)
        settled == [r EXCEPT
                      !.log = @ \o <<Event("fullProve.settled", r.circuit.wasm,
                                           IF P.threw THEN "rejected"
                                           ELSE "resolved")>>]
    IN  IF P.threw
        THEN Respond(settled, ErrorRes(500, P.error))
        ELSE Respond(settled, ProveRes(P.proof, P.publicSignals))

\* The second step of /prove, the process going down with the failed proof:
\* the other requests in flight are cut off without a response.
ProveFinish_CrashOnFailure(i) ==
    LET r == reqs[i]
        P == FullProve(r.body.input, r.circuit.wasm, r.circuit.zkey, files)
    IN  /\ r.pc = "proving"
        /\ reqs' = [j \in ReqIds |->
                IF j = i THEN PostProveSettled(r, files)
                ELSE IF P.threw /\ j \in InFlight(i)
                THEN [reqs[j] EXCEPT !.pc = "done", !.e1 = fsChanges]
                ELSE reqs[j]]
        /\ UNCHANGED <<circuits, nextId, dirExists, files, fsChanges>>

\* POST /prove, from the settling of fullProve to the response.
ProveFinish(i) ==
    /\ reqs[i].pc = "proving"
    /\ reqs' = [reqs EXCEPT ![i] = PostProveSettled(reqs[i], files)]
    /\ UNCHANGED <<circuits, nextId, dirExists, files, fsChanges>>

\* The handler of POST /verify up to the call of exportVerificationKey or of
\* verify, run for request r on the cache `cache` (next object identity id)
\* and the directory fs: the request, the cache and the next identity after
\* it.
PostVerify(r, cache, fs, id, peers) ==
    LET circuitType == CircuitTypeOf(r.body)
        L == LoadCircuit(cache, fs, circuitType, id)
        loaded == [r EXCEPT !.log = @ \o LoadLog(circuitType, L),
                            !.circuit = L.circuit,
                            !.peers = peers]
        vKeyPath == VKeyPath(L.circuit.zkey)
        found == ExistsSync(fs, vKeyPath)
        looked == [loaded EXCEPT
                    !.log = @ \o <<Event("existsSync", vKeyPath, Bool(found))>>]
        K == ReadVKeyFile(fs, vKeyPath)
        read == [looked EXCEPT
                    !.log = @ \o <<Event("readFileSync", vKeyPath,
                                         FileAt(fs, vKeyPath))>>]
    IN  IF r.body.proof = Undefined \/ r.body.publicSignals = Undefined
        THEN [req |-> Respond(r, ErrorRes(400, <<"Missing proof or publicSignals">>)),
              circuits |-> cache, nextId |-> id]
        ELSE [req |-> IF L.threw
                      THEN Respond(loaded, ErrorRes(500, L.error))
                      ELSE IF ~found
                      THEN [looked EXCEPT
                              !.pc = "exporting",
                              !.log = @ \o <<Event("exportVerificationKey",
                                                   L.circuit.zkey, "called")>>]
                      ELSE IF K.threw
                      THEN Respond(read, ErrorRes(500, K.error))
                      ELSE [read EXCEPT
                              !.pc = "verifying",
                              !.vKey = K.vKey,
                              !.log = @ \o <<Event("verify", K.vKey, "called")>>],
              circuits |-> L.circuits, nextId |-> IdAfter(L, id)]

\* POST /verify, up to the call of exportVerificationKey or of verify.
VerifyHandler(i) ==
    LET S == PostVerify(reqs[i], circuits, files, nextId, InFlight(i))
    IN  /\ reqs[i].pc = "pending"
        /\ reqs[i].route = "verify"
        /\ reqs' = [reqs EXCEPT ![i] = S.req]
        /\ circuits' = S.circuits
        /\ nextId' = S.nextId
        /\ UNCHANGED <<dirExists, files, fsChanges>>

\* The handler of POST /verify from the settling of exportVerificationKey to
\* the call of verify, run for request r on the directory fs.
PostVerifyExported(r, fs) ==
    LET X == ExportVerificationKey(r.circuit.zkey, fs)
        seen == [r EXCEPT
                    !.log = @ \o <<Event("exportVerificationKey.settled",
                                         r.circuit.zkey,
                                         FileAt(fs, r.circuit.zkey))>>]
    IN  IF X.threw
        THEN Respond(seen, ErrorRes(500, X.error))
        ELSE [seen EXCEPT
                !.pc = "verifying",
                !.vKey = X.vKey,
                !.log = @ \o <<Event("verify", X.vKey, "called")>>]

\* POST /verify, from the settling of exportVerificationKey to the call of
\* verify.
ExportFinish(i) ==
    /\ reqs[i].pc = "exporting"
    /\ reqs' = [reqs EXCEPT ![i] = PostVerifyExported(reqs[i], files)]
    /\ UNCHANGED <<circuits, nextId, dirExists, files, fsChanges>>

\* The last step of /verify, answering a proof that fails the check with an
\* error instead of valid: false.
VerifyFinish_ErrorOnInvalid(i) ==
    LET r == reqs[i]
        V == Groth16Verify(r.vKey, r.body.publicSignals, r.body.proof)
    IN  /\ r.pc = "verifying"
        /\ reqs' = [reqs EXCEPT ![i] =
                IF V.threw \/ ~V.isValid
                THEN Respond(r, ErrorRes(500, <<"Invalid proof">>))
                ELSE Respond(r, VerifyRes(V.isValid))]
        /\ UNCHANGED <<circuits, nextId, dirExists, files, fsChanges>>

\* The handler of POST /verify from the settling of verify to the response,
\* run for request r.
PostVerifySettled(r) ==
    LET V == Groth16Verify(r.vKey, r.body.publicSignals, r.body.proof)
    IN  IF V.threw
        THEN Respond(r, ErrorRes(500, V.error))
        ELSE Respond(r, VerifyRes(V.isValid))

\* POST /verify, from the settling of verify to the response.
VerifyFinish(i) ==
    /\ reqs[i].pc = "verifying"
    /\ reqs' = [reqs EXCEPT ![i] = PostVerifySettled(reqs[i])]
    /\ UNCHANGED <<circuits, nextId, dirExists, files, fsChanges>>

\* res.json({ status, service, version, loadedCircuits })
HealthRes(cache) ==
    [NoRes EXCEPT !.status = 200,
                  !.keys = {"status", "service", "version", "loadedCircuits"},
                  !.loaded = MapKeys(cache)]

\* The request GET /health, answered on the cache `cache`.
GetHealth(cache) ==
    Respond([IdleReq EXCEPT !.route = "health", !.before = DoneIds,
                            !.e0 = fsChanges],
            HealthRes(cache))

\* GET /health: the handler is synchronous.
Health(i) ==
    /\ Free(i)
    /\ reqs' = [reqs EXCEPT ![i] = GetHealth(circuits)]
    /\ UNCHANGED <<circuits, nextId, dirExists, files, fsChanges>>

\* The name of a file of the circuit directory.
FileName(p) == SubSeq(p, Len(CircuitDir) + 2, Len(p))
\* fs.readdirSync(circuitDir)
ReadDirSync(fs) == {FileName(p) : p \in {q \in DOMAIN fs : fs[q] # "absent"}}
\* f.endsWith('.wasm')
EndsWithWasm(f) == Len(f) > 0 /\ f[Len(f)] = ".wasm"

\* The body GET /circuits answers with.
CircuitsRes(cache, exists, fs) ==
    IF ~exists
    THEN [NoRes EXCEPT !.status = 200, !.keys = {"circuits"}]
    ELSE LET wasmFiles == {f \in ReadDirSync(fs) : EndsWithWasm(f)}
             availableCircuits == {Replace(f, ".wasm", <<>>) : f \in wasmFiles}
         IN  [NoRes EXCEPT !.status = 200,
                           !.keys = {"circuits", "loaded", "circuitDir"},
                           !.circuits = availableCircuits,
                           !.loaded = MapKeys(cache)]

\* The request GET /circuits, answered on the cache `cache` and the
\* directory fs.
GetCircuits(cache, exists, fs) ==
    Respond([IdleReq EXCEPT !.route = "circuits", !.before = DoneIds,
                            !.e0 = fsChanges],
            CircuitsRes(cache, exists, fs))

\* GET /circuits: the handler is synchronous.
Circuits(i) ==
    /\ Free(i)
    /\ reqs' = [reqs EXCEPT ![i] = GetCircuits(circuits, dirExists, files)]
    /\ UNCHANGED <<circuits, nextId, dirExists, files, fsChanges>>

-----------------------------------------------------------------------------
(* Specification *)

\* What a step of the service leaves alone.
others == <<twin, cli, ledger>>

Next ==
    \/ \E i \in ReqIds : \E b \in ProveBodies :
          Arrive(i, "prove", b) /\ UNCHANGED others
    \/ \E i \in ReqIds : \E b \in VerifyBodies :
          Arrive(i, "verify", b) /\ UNCHANGED others
    \/ \E i \in ReqIds : ProveHandler(i) /\ UNCHANGED others
    \/ \E i \in ReqIds : ProveFinish(i) /\ UNCHANGED others
    \/ \E i \in ReqIds : VerifyHandler(i) /\ UNCHANGED others
    \/ \E i \in ReqIds : ExportFinish(i) /\ UNCHANGED others
    \/ \E i \in ReqIds : VerifyFinish(i) /\ UNCHANGED others
    \/ \E i \in ReqIds : Health(i) /\ UNCHANGED others
    \/ \E i \in ReqIds : Circuits(i) /\ UNCHANGED others
    \/ \E p \in Paths : \E content \in Contents(p) :
          FsWrite(p, content) /\ UNCHANGED others
    \/ FsRemoveDir /\ UNCHANGED others
    \/ FsMakeDir /\ UNCHANGED others

Spec == Init /\ [][Next]_vars

-----------------------------------------------------------------------------
(* The service and its twin *)

\* The twin is the same service, on the same artifact directory, receiving
\* the same requests at the same moments, except the first one, which it
\* never receives: what the other requests get in the twin is what they
\* would get had the first request never been made.  Each step of the
\* handler of a request is taken in both; a request already answered in the
\* twin (its load failed there) takes no further step in it.

\* The request the twin does not receive.
Omitted == CHOOSE i \in ReqIds : \A j \in ReqIds : i <= j

TwinInFlight(i) == {j \in ReqIds \ {i} : twin.reqs[j].pc \notin {"idle", "done"}}

\* Request i stands at pc in the twin.
TwinAt(i, pc) == i # Omitted /\ twin.reqs[i].pc = pc

\* The twin after a handler step S = [req, circuits, nextId] of request i.
TwinAfter(i, S) ==
    [circuits |-> S.circuits, nextId |-> S.nextId,
     reqs |-> [twin.reqs EXCEPT ![i] = S.req]]

TwinArrive(i, route, body) ==
    /\ Arrive(i, route, body)
    /\ twin' = IF i = Omitted THEN twin
               ELSE [twin EXCEPT !.reqs[i] = Arrived(route, body)]

TwinProveHandler(i) ==
    /\ ProveHandler(i)
    /\ twin' = IF TwinAt(i, "pending")
               THEN TwinAfter(i, PostProve(twin.reqs[i], twin.circuits, files,
                                           twin.nextId, TwinInFlight(i)))
               ELSE twin

TwinProveFinish(i) ==
    /\ ProveFinish(i)
    /\ twin' = IF TwinAt(i, "proving")
               THEN [twin EXCEPT !.reqs[i] = PostProveSettled(@, files)]
               ELSE twin

TwinVerifyHandler(i) ==
    /\ VerifyHandler(i)
    /\ twin' = IF TwinAt(i, "pending")
               THEN TwinAfter(i, PostVerify(twin.reqs[i], twin.circuits, files,
                                            twin.nextId, TwinInFlight(i)))
               ELSE twin

TwinExportFinish(i) ==
    /\ ExportFinish(i)
    /\ twin' = IF TwinAt(i, "exporting")
               THEN [twin EXCEPT !.reqs[i] = PostVerifyExported(@, files)]
               ELSE twin

TwinVerifyFinish(i) ==
    /\ VerifyFinish(i)
    /\ twin' = IF TwinAt(i, "verifying")
               THEN [twin EXCEPT !.reqs[i] = PostVerifySettled(@)]
               ELSE twin

TwinHealth(i) ==
    /\ Health(i)
    /\ twin' = IF i = Omitted THEN twin
               ELSE [twin EXCEPT !.reqs[i] = GetHealth(twin.circuits)]

TwinCircuits(i) ==
    /\ Circuits(i)
    /\ twin' = IF i = Omitted THEN twin
               ELSE [twin EXCEPT !.reqs[i] =
                        GetCircuits(twin.circuits, dirExists, files)]

NextTwin ==
    \/ \E i \in ReqIds : \E b \in ProveBodies :
          TwinArrive(i, "prove", b) /\ UNCHANGED <<cli, ledger>>
    \/ \E i \in ReqIds : \E b \in VerifyBodies :
          TwinArrive(i, "verify", b) /\ UNCHANGED <<cli, ledger>>
    \/ \E i \in ReqIds : TwinProveHandler(i) /\ UNCHANGED <<cli, ledger>>
    \/ \E i \in ReqIds : TwinProveFinish(i) /\ UNCHANGED <<cli, ledger>>
    \/ \E i \in ReqIds : TwinVerifyHandler(i) /\ UNCHANGED <<cli, ledger>>
    \/ \E i \in ReqIds : TwinExportFinish(i) /\ UNCHANGED <<cli, ledger>>
    \/ \E i \in ReqIds : TwinVerifyFinish(i) /\ UNCHANGED <<cli, ledger>>
    \/ \E i \in ReqIds : TwinHealth(i) /\ UNCHANGED <<cli, ledger>>
    \/ \E i \in ReqIds : TwinCircuits(i) /\ UNCHANGED <<cli, ledger>>
    \/ \E p \in Paths : \E content \in Contents(p) :
          FsWrite(p, content) /\ UNCHANGED others
    \/ FsRemoveDir /\ UNCHANGED others
    \/ FsMakeDir /\ UNCHANGED others

SpecTwin == Init /\ [][NextTwin]_vars


-----------------------------------------------------------------------------
(* The command-line prover prove.js (src/unnamed/part_000, lines 1-42) *)

\* JavaScript values: t is what typeof / Array.isArray tell apart, n the
\* number of a bigint or number, s the tokens of a string, items the
\* elements of an array or the entries [k, v] of an object in key order.
JsValue(t, n, s, items) == [t |-> t, n |-> n, s |-> s, items |-> items]
BigIntOf(n) == JsValue("bigint", n, <<>>, <<>>)
NumberOf(n) == JsValue("number", n, <<>>, <<>>)
StringOf(s) == JsValue("string", 0, s, <<>>)
ArrayOf(items) == JsValue("array", 0, <<>>, items)
ObjectOf(entries) == JsValue("object", 0, <<>>, entries)
JsUndefined == JsValue("undefined", 0, <<>>, <<>>)
Entry(k, v) == [k |-> k, v |-> v]

DigitChars == <<"0", "1", "2", "3", "4", "5", "6", "7", "8", "9">>

RECURSIVE Digits(_)
Digits(n) ==
    IF n < 10 THEN <<DigitChars[n + 1]>>
    ELSE Digits(n \div 10) \o <<DigitChars[(n % 10) + 1]>>

\* The decimal text of an integer, as BigInt.prototype.toString() writes it:
\* the digits, after a minus sign for a negative value.
Decimal(n) == IF n < 0 THEN <<"-">> \o Digits(0 - n) ELSE Digits(n)

RECURSIVE DigitsValue(_)
DigitsValue(s) ==
    IF s = <<>> THEN 0
    ELSE 10 * DigitsValue(SubSeq(s, 1, Len(s) - 1))
         + (IndexOf(DigitChars, s[Len(s)]) - 1)

\* The integer a decimal string denotes.
ParseDecimal(s) ==
    IF s # <<>> /\ s[1] = "-" THEN 0 - DigitsValue(Tail(s)) ELSE DigitsValue(s)

RECURSIVE StringifyBigInts(_)
\* stringifyBigInts (lines 25-30): a bigint becomes its decimal string, an
\* array and an object are rebuilt from their converted elements, everything
\* else (a number, a string, null, undefined) is returned as it is.
StringifyBigInts(o) ==
    IF o.t = "bigint" THEN StringOf(Decimal(o.n))
    ELSE IF o.t = "array"
    THEN ArrayOf([k \in DOMAIN o.items |-> StringifyBigInts(o.items[k])])
    ELSE IF o.t = "object"
    THEN ObjectOf([k \in DOMAIN o.items |->
                      Entry(o.items[k].k, StringifyBigInts(o.items[k].v))])
    ELSE o

RECURSIVE HasBigInt(_)
HasBigInt(v) ==
    \/ v.t = "bigint"
    \/ v.t = "array" /\ \E k \in DOMAIN v.items : HasBigInt(v.items[k])
    \/ v.t = "object" /\ \E k \in DOMAIN v.items : HasBigInt(v.items[k].v)

RECURSIVE ToJson(_)
\* The JSON document of a value without bigints: a number is written as a
\* JSON number, a string as a JSON string.
ToJson(v) ==
    IF v.t = "number" THEN JsValue("json number", 0, Decimal(v.n), <<>>)
    ELSE IF v.t = "string" THEN JsValue("json string", 0, v.s, <<>>)
    ELSE IF v.t = "array"
    THEN JsValue("json array", 0, <<>>, [k \in DOMAIN v.items |-> ToJson(v.items[k])])
    ELSE IF v.t = "object"
    THEN JsValue("json object", 0, <<>>,
                 [k \in DOMAIN v.items |->
                     Entry(v.items[k].k, ToJson(v.items[k].v))])
    ELSE JsValue("json null", 0, <<>>, <<>>)

\* JSON.stringify(v): throws a TypeError on a bigint.
JsonStringify(v) ==
    IF HasBigInt(v)
    THEN [threw |-> TRUE, error |-> <<"Do not know how to serialize a BigInt">>,
          doc |-> JsUndefined]
    ELSE [threw |-> FALSE, error |-> NoError, doc |-> ToJson(v)]

\* The keys of an object or of a JSON object, in order.
Keys(v) == [k \in DOMAIN v.items |-> v.items[k].k]

\* The leaves that proofs and public signals are built from.
Leaves ==
    {BigIntOf(0), BigIntOf(0 - 12), BigIntOf(1234567890), NumberOf(3),
     StringOf(<<"bn128">>)}

\* What fullProve may return: nested arrays and objects over the leaves.
ProofValues ==
    {ObjectOf(<<Entry("pi_a", ArrayOf(<<a, ArrayOf(<<b>>)>>)),
                Entry("protocol", StringOf(<<"groth16">>))>>) :
        a \in Leaves, b \in Leaves}
SignalValues == {ArrayOf(<<a>>) : a \in Leaves} \cup {ArrayOf(<<>>)}

\* snarkjs.groth16.fullProve(input, wasmPath, zkeyPath) of line 22: throws
\* when the circuit files cannot be read or the witness violates the
\* constraints, and returns the proof and the public signals otherwise.
Groth16FullProve(input, artifacts, result) ==
    IF artifacts # "ok"
    THEN [threw |-> TRUE, error |-> <<"ENOENT: no such file or directory">>,
          proof |-> JsUndefined, publicSignals |-> JsUndefined]
    ELSE IF input # "sat"
    THEN [threw |-> TRUE, error |-> <<"Assert Failed">>,
          proof |-> JsUndefined, publicSignals |-> JsUndefined]
    ELSE [threw |-> FALSE, error |-> NoError,
          proof |-> result.proof, publicSignals |-> result.publicSignals]

\* process.argv.slice(2): up to MaxArgs strings, each empty or a path.
Argvs ==
    UNION {[1..n -> {<<>>, <<"path">>}] : n \in 0..MaxArgs}

\* const [zkeyPath, wasmPath, inputPath] = process.argv.slice(2)
Arg(argv, k) == IF k <= Len(argv) THEN argv[k] ELSE Undefined
\* !a for a string or undefined
Falsy(a) == a = Undefined \/ a = <<>>

\* The runs of prove.js: its arguments, what the input file holds (nothing,
\* something that is no JSON, a witness that satisfies the circuit or one
\* that violates it), whether the circuit files can be read, and what
\* fullProve returns when it succeeds.
CliRuns ==
    {[pc |-> "start", argv |-> a, inputFile |-> f, artifacts |-> x,
      result |-> [proof |-> p, publicSignals |-> g],
      payload |-> JsUndefined, stdout |-> <<>>, stderr |-> <<>>,
      exitCode |-> 0] :
        a \in Argvs, f \in {"absent", "garbage", "sat", "unsat"},
        x \in {"ok", "absent"}, p \in ProofValues, g \in SignalValues}

\* The catch block writing the error to standard output.
CliCatch_ToStdout(c, message) ==
    [c EXCEPT !.pc = "exited",
              !.stdout = Append(@, ToJson(ObjectOf(<<Entry("error",
                                                          StringOf(message))>>))),
              !.exitCode = 1]

\* The catch block (lines 36-39): writes { error } to standard error and
\* exits with status 1.
CliCatch(c, message) ==
    [c EXCEPT !.pc = "exited",
              !.stderr = Append(@, ToJson(ObjectOf(<<Entry("error",
                                                          StringOf(message))>>))),
              !.exitCode = 1]

\* main up to the call of fullProve (lines 12-22).
CliMain ==
    /\ cli.pc = "start"
    /\ cli' =
         IF Falsy(Arg(cli.argv, 1)) \/ Falsy(Arg(cli.argv, 2))
            \/ Falsy(Arg(cli.argv, 3))
         THEN CliCatch(cli, <<"Usage: node prove.js <zkeyPath> <wasmPath> <inputJsonPath>">>)
         ELSE IF cli.inputFile = "absent"
         THEN CliCatch(cli, <<"ENOENT: no such file or directory">>)
         ELSE IF cli.inputFile = "garbage"
         THEN CliCatch(cli, <<"Unexpected token in JSON">>)
         ELSE [cli EXCEPT !.pc = "proving"]
    /\ UNCHANGED <<service, twin, ledger>>

\* main from the settling of fullProve (lines 22-35); the process exits with
\* status 0 when main returns.
CliSettled ==
    LET P == Groth16FullProve(cli.inputFile, cli.artifacts, cli.result)
        payload == ObjectOf(<<Entry("proof", StringifyBigInts(P.proof)),
                              Entry("publicSignals",
                                    StringifyBigInts(P.publicSignals))>>)
        J == JsonStringify(payload)
    IN  /\ cli.pc = "proving"
        /\ cli' =
             IF P.threw THEN CliCatch(cli, P.error)
             ELSE IF J.threw
             THEN CliCatch([cli EXCEPT !.payload = payload], J.error)
             ELSE [cli EXCEPT !.pc = "exited", !.payload = payload,
                              !.stdout = Append(@, J.doc)]
        /\ UNCHANGED <<service, twin, ledger>>

InitCli ==
    /\ InitService
    /\ twin = InitTwin
    /\ ledger = LedgerOff
    /\ cli \in CliRuns

NextCli == CliMain \/ CliSettled

SpecCli == InitCli /\ [][NextCli]_vars

-----------------------------------------------------------------------------
(* The spend ledger of one (wallet, serviceKey, day) *)

\* The payment bots of the README (AutomatedPaymentBot.make_payment,
\* make_payment_async) spend against an authorization with a limit per
\* transaction and a limit per day.  The code that keeps the ledger is not
\* among the sources; it is modelled from the specification's
\* AuthorizationPolicy: tryReserve, commit and release, each one indivisible
\* step on the ledger entry.

Payers == 1..MaxCallers
Amounts == 1..MaxAmount

NoCall == [st |-> "idle", amount |-> 0, error |-> "none"]

\* The ledger entries a day starts with, one for each authorization.
Ledgers ==
    {[open |-> TRUE, maxPerTransaction |-> m, maxDailySpend |-> d,
      committedTotal |-> 0, reservedTotal |-> 0,
      calls |-> [c \in Payers |-> NoCall]] :
        m \in Amounts, d \in Amounts}

\* The daily-limit check looking at the committed spends only.
FitsDay_CommittedOnly(l, amount) ==
    l.committedTotal + amount <= l.maxDailySpend

\* The daily-limit check: committedTotal + reservedTotal + amount does not
\* exceed maxDailySpend.
FitsDay(l, amount) ==
    l.committedTotal + l.reservedTotal + amount <= l.maxDailySpend

\* tryReserve(wallet, serviceKey, amount): the limit per transaction is
\* checked first, then the daily limit, and the check and the increment of
\* reservedTotal are one step.
TryReserve(c, amount) ==
    /\ ledger.open
    /\ ledger.calls[c].st = "idle"
    /\ ledger' =
         IF amount > ledger.maxPerTransaction
         THEN [ledger EXCEPT !.calls[c] =
                 [st |-> "rejected", amount |-> amount,
                  error |-> "PerTransactionLimitExceeded"]]
         ELSE IF ~FitsDay(ledger, amount)
         THEN [ledger EXCEPT !.calls[c] =
                 [st |-> "rejected", amount |-> amount,
                  error |-> "DailyLimitExceeded"]]
         ELSE [ledger EXCEPT !.reservedTotal = @ + amount,
                             !.calls[c] =
                 [st |-> "reserved", amount |-> amount, error |-> "none"]]
    /\ UNCHANGED <<service, twin, cli>>

\* commit(ReservationId): the reserved amount moves into committedTotal; a
\* reservation already resolved fails with ReservationAlreadyResolved.
Commit(c) ==
    /\ ledger.open
    /\ ledger.calls[c].st \in {"reserved", "committed", "released"}
    /\ ledger.calls[c].error = "none"
    /\ ledger' =
         IF ledger.calls[c].st = "reserved"
         THEN [ledger EXCEPT !.reservedTotal = @ - ledger.calls[c].amount,
                             !.committedTotal = @ + ledger.calls[c].amount,
                             !.calls[c].st = "committed"]
         ELSE [ledger EXCEPT !.calls[c].error = "ReservationAlreadyResolved"]
    /\ UNCHANGED <<service, twin, cli>>

\* release(ReservationId): the reserved amount leaves reservedTotal and is
\* not credited; a reservation already resolved fails with
\* ReservationAlreadyResolved.
Release(c) ==
    /\ ledger.open
    /\ ledger.calls[c].st \in {"reserved", "committed", "released"}
    /\ ledger.calls[c].error = "none"
    /\ ledger' =
         IF ledger.calls[c].st = "reserved"
         THEN [ledger EXCEPT !.reservedTotal = @ - ledger.calls[c].amount,
                             !.calls[c].st = "released"]
         ELSE [ledger EXCEPT !.calls[c].error = "ReservationAlreadyResolved"]
    /\ UNCHANGED <<service, twin, cli>>

InitLedger ==
    /\ InitService
    /\ twin = InitTwin
    /\ cli = CliOff
    /\ ledger \in Ledgers

NextLedger ==
    \/ \E c \in Payers : \E amount \in Amounts : TryReserve(c, amount)
    \/ \E c \in Payers : Commit(c)
    \/ \E c \in Payers : Release(c)

SpecLedger == InitLedger /\ [][NextLedger]_vars

-----------------------------------------------------------------------------
(* What the requests' logs say *)

Logged(i, op, path, out) ==
    \E k \in DOMAIN reqs[i].log : reqs[i].log[k] = Event(op, path, out)

TypeOfReq(i) == CircuitTypeOf(reqs[i].body)

\* Request i called loadCircuit and the call returned / threw.
LoadReturned(i) == Logged(i, "loadCircuit", TypeOfReq(i), "returned")
LoadThrew(i) == Logged(i, "loadCircuit", TypeOfReq(i), "threw")
\* The call went to storage: it checked that the .wasm file exists.
LoadChecked(i) ==
    \E out \in {"true", "false"} :
        Logged(i, "existsSync", WasmPath(TypeOfReq(i)), out)
\* The call put the circuit into the cache.
LoadInserted(i) == Logged(i, "circuits.set", TypeOfReq(i), "ok")

Callers(c) == {i \in ReqIds : TypeOfReq(i) = c /\ (LoadReturned(i) \/ LoadThrew(i))}
Holders(c) == {i \in ReqIds : TypeOfReq(i) = c /\ LoadReturned(i)}

\* Request i takes its handler step: from the parsed body to loadCircuit and
\* the first snarkjs call, or to an early response.
Handles(i) == reqs[i].pc = "pending" /\ reqs'[i].pc # "pending"

\* Request i calls loadCircuit in this step.
CallsLoad(i) ==
    /\ Handles(i)
    /\ \E out \in {"returned", "threw"} :
          \E k \in DOMAIN reqs'[i].log :
              reqs'[i].log[k] = Event("loadCircuit", TypeOfReq(i), out)

\* The paths loadCircuit looks at for a circuit type.
ArtifactPaths(c) == {WasmPath(c), ZkeyPath(c)}

\* Every entry of the cache has both paths of its circuit type.
Complete(entry) ==
    /\ entry.value.wasm = WasmPath(entry.key)
    /\ entry.value.zkey = ZkeyPath(entry.key)

-----------------------------------------------------------------------------
(* C1 *)

\* C1: for a circuit type none of whose loads failed (its artifacts were
\* present whenever a request needed them), however the requests that need it
\* interleave, the storage check and the cache insertion of loadCircuit ran
\* exactly once, and every request that obtained the circuit holds the very
\* same object.
C1_SingleLoad ==
    \A c \in CircuitTypes :
        (Holders(c) # {} /\ \A i \in Callers(c) : ~LoadThrew(i)) =>
            /\ Cardinality({i \in Callers(c) : LoadChecked(i)}) = 1
            /\ Cardinality({i \in Callers(c) : LoadInserted(i)}) = 1
            /\ \A i, j \in Holders(c) : reqs[i].circuit = reqs[j].circuit

\* A /prove and a /verify for the same circuit type, the second waiting while
\* the first loaded the uncached circuit, both hold the circuit.
C1_Witness ==
    \E i, j \in ReqIds : \E c \in CircuitTypes :
        /\ i # j
        /\ {i, j} \subseteq Holders(c)
        /\ reqs[i].route = "prove" /\ reqs[j].route = "verify"
        /\ j \in reqs[i].peers
        /\ LoadInserted(i)
        /\ reqs[i].pc = "proving" /\ reqs[j].pc \in {"exporting", "verifying"}

-----------------------------------------------------------------------------
(* C2 *)

\* C2 (as claimed): when two requests for the same uncached circuit type are
\* in flight together and the load of one fails, the other receives the same
\* failure: they do not end one with a not-found error and the other with
\* the circuit, nor with different errors.
C2_SameOutcome ==
    \A i, j \in ReqIds :
        (/\ i # j
         /\ TypeOfReq(i) = TypeOfReq(j)
         /\ j \in reqs[i].peers
         /\ LoadThrew(i)
         /\ j \in Callers(TypeOfReq(j))) =>
            /\ LoadThrew(j)
            /\ reqs[j].res.error = reqs[i].res.error

-----------------------------------------------------------------------------
(* C3 *)

\* A call of loadCircuit for a circuit type that is in the cache returns the
\* cached object, checks no file and leaves the cache as it is.
C3_Step ==
    \A i \in ReqIds :
        (CallsLoad(i) /\ MapHas(circuits, TypeOfReq(i))) =>
            /\ LoadReturned(i)'
            /\ reqs'[i].circuit = MapGet(circuits, TypeOfReq(i))
            /\ \A k \in DOMAIN reqs'[i].log :
                  ~(/\ reqs'[i].log[k].op = "existsSync"
                    /\ reqs'[i].log[k].path \in ArtifactPaths(TypeOfReq(i)))
            /\ circuits' = circuits

\* C3: once loadCircuit has succeeded for a circuit type, every later call for
\* it returns the object the first call inserted and makes no storage access,
\* whatever requests ran in between and whatever the directory holds now.
C3_Idempotent == [][C3_Step]_vars

\* A request obtained the circuit from the cache after the circuit's .wasm
\* file had been removed; an earlier request had loaded it.
C3_Witness ==
    \E i, j \in ReqIds : \E c \in CircuitTypes :
        /\ {i, j} \subseteq Holders(c)
        /\ LoadInserted(j) /\ ~LoadInserted(i)
        /\ j \in reqs[i].before
        /\ reqs[i].pc # "done"
        /\ reqs[i].e0 = fsChanges
        /\ FileAt(files, WasmPath(c)) = "absent"
        /\ reqs[i].circuit = reqs[j].circuit

-----------------------------------------------------------------------------
(* C4 *)

\* Every entry stays where it is, with the same object; a step that changes
\* the cache is a call of loadCircuit that returns and appends its object
\* under a key that was absent.
C4_Step ==
    /\ \A k \in DOMAIN circuits :
          k \in DOMAIN circuits' /\ circuits'[k] = circuits[k]
    /\ circuits' # circuits =>
          \E i \in ReqIds :
              /\ CallsLoad(i)
              /\ LoadReturned(i)'
              /\ ~MapHas(circuits, TypeOfReq(i))
              /\ circuits' = Append(circuits,
                                    [key |-> TypeOfReq(i),
                                     value |-> reqs'[i].circuit])

\* C4: the cache only grows and its entries are immutable; the only step that
\* changes it, among all steps of /health, /prove, /verify and /circuits, is
\* a successful loadCircuit inserting a previously absent key.
C4_GrowOnly == [][C4_Step]_vars

\* A circuit is cached, its files are gone, a later load of another circuit
\* type failed and /health or /circuits was answered after that.
C4_Witness ==
    \E i, j \in ReqIds :
        /\ Len(circuits) = 1
        /\ FileAt(files, WasmPath(circuits[1].key)) = "absent"
        /\ FileAt(files, ZkeyPath(circuits[1].key)) = "absent"
        /\ LoadInserted(i)
        /\ Done(j) /\ reqs[j].route \in {"health", "circuits"}
        /\ i \in reqs[j].before

-----------------------------------------------------------------------------
(* C5 *)

\* A call of loadCircuit for an uncached circuit type throws a not-found
\* error exactly when the .wasm or the _final.zkey file is absent at that
\* time; a call that throws leaves the cache as it was, and a call that
\* returns has inserted its object.
C5_Step ==
    \A i \in ReqIds :
        (CallsLoad(i) /\ ~MapHas(circuits, TypeOfReq(i))) =>
            LET c == TypeOfReq(i)
                missing == \E p \in ArtifactPaths(c) : FileAt(files, p) = "absent"
            IN  /\ LoadThrew(i)' <=> missing
                /\ LoadThrew(i)' =>
                      /\ circuits' = circuits
                      /\ reqs'[i].res.status = 500
                      /\ reqs'[i].res.error \in
                            {<<"WASM file not found: ">> \o WasmPath(c),
                             <<"ZKey file not found: ">> \o ZkeyPath(c)}
                /\ LoadReturned(i)' =>
                      /\ MapHas(circuits', c)
                      /\ MapGet(circuits', c) = reqs'[i].circuit

\* Every entry visible in the cache is fully loaded.
C5_CacheComplete == \A k \in DOMAIN circuits : Complete(circuits[k])

\* C5: an uncached load fails with a not-found error exactly when the .wasm
\* or the _final.zkey file is absent at the time of the load, a failed load
\* leaves the cache unchanged, and every entry visible in the cache has both
\* paths, whose files existed when it was inserted.
C5_NotFound == []C5_CacheComplete /\ [][C5_Step]_vars

\* A load failed for the proving key alone (the .wasm file was there), and
\* the cache is still empty.
C5_Witness ==
    \E i \in ReqIds :
        /\ LoadThrew(i)
        /\ reqs[i].res.error = <<"ZKey file not found: ">> \o ZkeyPath(TypeOfReq(i))
        /\ circuits = <<>>


-----------------------------------------------------------------------------
(* C6 *)

\* A /verify request that carries both fields and has been answered.
Verified(i) ==
    /\ reqs[i].route = "verify"
    /\ Done(i)
    /\ reqs[i].body.proof # Undefined
    /\ reqs[i].body.publicSignals # Undefined

\* The service found a precomputed key file and could not parse it.
KeyUnreadable(i) ==
    \E k \in DOMAIN reqs[i].log :
        reqs[i].log[k].op = "readFileSync" /\ reqs[i].log[k].out # "ok"
\* The service found no precomputed key and could not derive one.
DeriveFailed(i) ==
    \E k \in DOMAIN reqs[i].log :
        /\ reqs[i].log[k].op = "exportVerificationKey.settled"
        /\ reqs[i].log[k].out # "ok"
\* The service called verify with a value that is no proof object.
VerifyThrew(i) ==
    /\ \E k \in DOMAIN reqs[i].log : reqs[i].log[k].op = "verify"
    /\ reqs[i].body.proof = Junk

\* The check the proof has to pass.
ProofChecks(i) ==
    /\ reqs[i].body.proof = ProofOf(ZkeyPath(TypeOfReq(i)))
    /\ reqs[i].body.publicSignals = Signals

\* C6 (as claimed): a /verify request with both fields is answered with an
\* error only when no precomputed key file exists and no key can be derived
\* from the proving key; it is answered with a boolean otherwise.  (Read in
\* the states where the directory is as it was when the response was sent.)
C6_OnlyKeyErrors ==
    \A i \in ReqIds :
        (Verified(i) /\ reqs[i].e1 = fsChanges /\ reqs[i].e0 = fsChanges) =>
            LET c == TypeOfReq(i)
                obtainable ==
                    \/ ExistsSync(files, PathJoin(CircuitDir,
                                      c \o <<"_verification_key.json">>))
                    \/ FileAt(files, ZkeyPath(c)) = "ok"
            IN  IF obtainable
                THEN reqs[i].res.status = 200
                     /\ reqs[i].res.valid \in {"true", "false"}
                ELSE reqs[i].res.status = 500

\* C6 (amended): a /verify request with both fields is answered with an error
\* exactly when loadCircuit threw, or the precomputed key file it found could
\* not be parsed, or it found none and the export from the proving key
\* failed, or verify threw on a malformed proof; otherwise it is answered
\* with a boolean, false for a proof that fails the check.
C6_ErrorCauses ==
    \A i \in ReqIds :
        Verified(i) =>
            IF LoadThrew(i) \/ KeyUnreadable(i) \/ DeriveFailed(i) \/ VerifyThrew(i)
            THEN /\ reqs[i].res.status = 500
                 /\ reqs[i].res.keys = {"error"}
            ELSE /\ reqs[i].res.status = 200
                 /\ "valid" \in reqs[i].res.keys
                 /\ reqs[i].res.valid = Bool(ProofChecks(i))

\* A /verify request failed in loadCircuit although the proving key, from
\* which a verification key can be derived, is in place.
C6_Witness ==
    \E i \in ReqIds :
        /\ Verified(i)
        /\ LoadThrew(i)
        /\ reqs[i].res.status = 500
        /\ reqs[i].e0 = fsChanges
        /\ FileAt(files, ZkeyPath(TypeOfReq(i))) = "ok"

-----------------------------------------------------------------------------
(* C7 *)

\* What a /verify request was answered with.
Outcome(i) == IF reqs[i].res.status = 200 THEN reqs[i].res.valid ELSE "fail"

SameInputs(i, j) ==
    /\ TypeOfReq(i) = TypeOfReq(j)
    /\ reqs[i].body.proof = reqs[j].body.proof
    /\ reqs[i].body.publicSignals = reqs[j].body.publicSignals

\* C7 (as claimed): two /verify requests with the same circuit type, proof
\* and public signals have the same outcome, whatever happened before or
\* between them, changes of the artifact directory included.
C7_PureVerify ==
    \A i, j \in ReqIds :
        (/\ reqs[i].route = "verify" /\ reqs[j].route = "verify"
         /\ Done(i) /\ Done(j)
         /\ SameInputs(i, j)) =>
            Outcome(i) = Outcome(j)

\* C7 (amended): two /verify requests with the same circuit type, proof and
\* public signals have the same outcome, whatever other requests ran and
\* whether or not the circuit was cached, provided the artifact directory
\* did not change from the arrival of the first to the response of the last.
C7_PureOnStableDir ==
    \A i, j \in ReqIds :
        (/\ reqs[i].route = "verify" /\ reqs[j].route = "verify"
         /\ Done(i) /\ Done(j)
         /\ SameInputs(i, j)
         /\ reqs[i].e0 = reqs[i].e1
         /\ reqs[j].e0 = reqs[j].e1
         /\ reqs[i].e0 = reqs[j].e0) =>
            Outcome(i) = Outcome(j)

\* Two /verify requests with the same inputs, the first loading the circuit
\* and the second finding it cached after the circuit's files were removed,
\* both answered alike within one state of the directory.
C7_Witness ==
    \E i, j \in ReqIds :
        /\ Verified(i) /\ Verified(j)
        /\ i # j
        /\ SameInputs(i, j)
        /\ reqs[i].e0 = reqs[i].e1
        /\ reqs[j].e0 = reqs[j].e1
        /\ reqs[i].e0 = reqs[j].e0
        /\ LoadInserted(i) /\ LoadReturned(j) /\ ~LoadInserted(j)
        /\ Outcome(i) = "true" /\ Outcome(j) = "true"


-----------------------------------------------------------------------------
(* C8 *)

\* The body of request i lacks a field its route requires.
MissingField(i) ==
    \/ reqs[i].route = "prove" /\ reqs[i].body.input = Undefined
    \/ /\ reqs[i].route = "verify"
       /\ \/ reqs[i].body.proof = Undefined
          \/ reqs[i].body.publicSignals = Undefined

\* A request with a missing field, once handled, is answered with 400 and
\* has called nothing.
C8_Answered ==
    \A i \in ReqIds :
        (MissingField(i) /\ reqs[i].pc # "pending") =>
            /\ Done(i)
            /\ reqs[i].res.status = 400
            /\ reqs[i].res.keys = {"error"}
            /\ reqs[i].log = <<>>
            /\ reqs[i].circuit = NoCircuit

\* The handler step of a request with a missing field changes neither the
\* cache nor the directory.
C8_Step ==
    \A i \in ReqIds :
        (Handles(i) /\ MissingField(i)) =>
            /\ circuits' = circuits
            /\ nextId' = nextId
            /\ files' = files

\* C8: a /prove without input and a /verify without proof or publicSignals
\* are answered with status 400; the request has then called neither
\* loadCircuit nor any file or snarkjs routine, and its handler step left the
\* cache as it was.
C8_RejectedEarly == []C8_Answered /\ [][C8_Step]_vars

\* A /prove and a /verify were rejected with 400 while the circuit type they
\* name, whose files are in place, is not in the cache.
C8_Witness ==
    \E i, j \in ReqIds :
        /\ reqs[i].route = "prove" /\ reqs[j].route = "verify"
        /\ MissingField(i) /\ MissingField(j)
        /\ reqs[i].res.status = 400 /\ reqs[j].res.status = 400
        /\ ~MapHas(circuits, TypeOfReq(i)) /\ ~MapHas(circuits, TypeOfReq(j))
        /\ \A p \in ArtifactPaths(TypeOfReq(i)) \cup ArtifactPaths(TypeOfReq(j)) :
              FileAt(files, p) = "ok"

-----------------------------------------------------------------------------
(* C9 *)

\* The proof generation of request i succeeded.
Proved(i) == Logged(i, "fullProve.settled", reqs[i].circuit.wasm, "resolved")

\* C9: a /prove with input is answered either with proof and publicSignals
\* together and no error, exactly when the load and the proof generation
\* both succeeded, or with status 500, an error and neither of the two.
C9_ProofPair ==
    \A i \in ReqIds :
        (reqs[i].route = "prove" /\ Done(i) /\ ~MissingField(i)) =>
            IF LoadReturned(i) /\ Proved(i)
            THEN /\ reqs[i].res.status = 200
                 /\ {"proof", "publicSignals"} \subseteq reqs[i].res.keys
                 /\ "error" \notin reqs[i].res.keys
                 /\ reqs[i].res.proof # Undefined
                 /\ reqs[i].res.publicSignals # Undefined
            ELSE /\ reqs[i].res.status = 500
                 /\ reqs[i].res.keys = {"error"}
                 /\ reqs[i].res.error # NoError
                 /\ reqs[i].res.proof = Undefined
                 /\ reqs[i].res.publicSignals = Undefined

\* One /prove was answered with a proof and its public signals, another with
\* the error of a failed proof generation.
C9_Witness ==
    \E i, j \in ReqIds :
        /\ reqs[i].route = "prove" /\ reqs[j].route = "prove"
        /\ Done(i) /\ Done(j)
        /\ reqs[i].res.status = 200 /\ reqs[i].res.proof # Undefined
        /\ reqs[j].res.status = 500 /\ LoadReturned(j) /\ ~Proved(j)

-----------------------------------------------------------------------------
(* C10 *)

\* The proof generation of request i failed on a witness that violates the
\* constraints (the circuit's files were read).
WitnessRejected(i) ==
    /\ reqs[i].route = "prove"
    /\ Done(i)
    /\ reqs[i].body.input = <<"unsat">>
    /\ Logged(i, "fullProve.settled", reqs[i].circuit.wasm, "rejected")
    /\ reqs[i].res.error = <<"Assert Failed">>

\* C10: after a proof generation failed on a violating witness, the request
\* is answered with the error, the cache holds complete entries only, the
\* entry of the circuit type is the object the request loaded, and a /prove
\* with a satisfying witness for the same circuit type that follows (with
\* the directory as it was at the failure) succeeds.
C10_NoPartialState ==
    \A i \in ReqIds :
        WitnessRejected(i) =>
            /\ reqs[i].res.status = 500
            /\ reqs[i].res.keys = {"error"}
            /\ \A k \in DOMAIN circuits : Complete(circuits[k])
            /\ MapHas(circuits, TypeOfReq(i))
            /\ MapGet(circuits, TypeOfReq(i)) = reqs[i].circuit
            /\ \A j \in ReqIds :
                  (/\ reqs[j].route = "prove"
                   /\ Done(j)
                   /\ i \in reqs[j].before
                   /\ TypeOfReq(j) = TypeOfReq(i)
                   /\ reqs[j].body.input = <<"sat">>
                   /\ reqs[j].e1 = reqs[i].e1) =>
                      /\ reqs[j].res.status = 200
                      /\ reqs[j].res.proof = ProofOf(ZkeyPath(TypeOfReq(j)))

\* A /prove with a satisfying witness succeeded after a /prove for the same
\* circuit type had failed on a violating witness.
C10_Witness ==
    \E i, j \in ReqIds :
        /\ WitnessRejected(i)
        /\ reqs[j].route = "prove" /\ Done(j)
        /\ i \in reqs[j].before
        /\ TypeOfReq(j) = TypeOfReq(i)
        /\ reqs[j].body.input = <<"sat">>
        /\ reqs[j].res.status = 200

-----------------------------------------------------------------------------
(* C15 *)

\* The calls of loadCircuit request i has made.
LoadCalls(i) == {k \in DOMAIN reqs[i].log : reqs[i].log[k].op = "loadCircuit"}

\* A load of a circuit type no request has obtained yet, whatever loads of it
\* have failed before, goes to the files: it throws the not-found error when
\* one of them is absent, and returns and caches the circuit when both are
\* there.
C15_Step ==
    \A i \in ReqIds :
        (CallsLoad(i) /\ Holders(TypeOfReq(i)) = {}) =>
            LET c == TypeOfReq(i)
                missing == \E p \in ArtifactPaths(c) : FileAt(files, p) = "absent"
            IN  /\ LoadChecked(i)'
                /\ missing =>
                      /\ LoadThrew(i)'
                      /\ reqs'[i].res.error \in
                            {<<"WASM file not found: ">> \o WasmPath(c),
                             <<"ZKey file not found: ">> \o ZkeyPath(c)}
                      /\ ~MapHas(circuits', c)
                /\ ~missing =>
                      /\ LoadReturned(i)'
                      /\ LoadInserted(i)'
                      /\ MapHas(circuits', c)

\* The service calls loadCircuit once per request: a request whose load
\* threw is answered with that error and does not load again.
C15_NoRetry ==
    \A i \in ReqIds :
        /\ Cardinality(LoadCalls(i)) <= 1
        /\ LoadThrew(i) => Done(i) /\ reqs[i].res.status = 500

\* C15: a failed load is not memoized: while a required file is absent every
\* load of the circuit type throws the not-found error again, the first load
\* made when both files are in place returns and caches the circuit, and the
\* service makes one load per request, never a retry of its own.
C15_NotMemoized == []C15_NoRetry /\ [][C15_Step]_vars

\* A request's load failed, and a later request for the same circuit type
\* loaded and cached the circuit.
C15_Witness ==
    \E i, j \in ReqIds :
        /\ i # j
        /\ TypeOfReq(i) = TypeOfReq(j)
        /\ LoadThrew(i)
        /\ i \in reqs[j].before
        /\ LoadInserted(j)

-----------------------------------------------------------------------------
(* C17 *)

\* Entry k of request i's log is a call of the proving routine, a lookup or
\* read of the verification key file, a key export or a call of the verify
\* routine.
UsesCircuit(i, k) ==
    LET e == reqs[i].log[k]
    IN  \/ e.op \in {"fullProve", "fullProve.settled", "readFileSync",
                     "exportVerificationKey", "exportVerificationKey.settled",
                     "verify"}
        \/ e.op = "existsSync" /\ e.path = VKeyPath(ZkeyPath(TypeOfReq(i)))

\* C17: in the log of every request, a call of the proving routine, of the
\* verification key lookup, of the key export or of the verify routine comes
\* after the entry of loadCircuit returning for the request's circuit type;
\* the log of a request whose load threw has none of them.
C17_LoadFirst ==
    \A i \in ReqIds :
        /\ \A k \in DOMAIN reqs[i].log :
              UsesCircuit(i, k) =>
                  \E m \in 1..(k - 1) :
                      reqs[i].log[m] = Event("loadCircuit", TypeOfReq(i), "returned")
        /\ LoadThrew(i) => \A k \in DOMAIN reqs[i].log : ~UsesCircuit(i, k)

\* A /verify went through load, key export and verify, a /prove through load
\* and proving, and both were answered.
C17_Witness ==
    \E i, j \in ReqIds :
        /\ reqs[i].route = "verify" /\ Done(i) /\ reqs[i].res.valid = "true"
        /\ Logged(i, "exportVerificationKey", ZkeyPath(TypeOfReq(i)), "called")
        /\ reqs[j].route = "prove" /\ Done(j) /\ reqs[j].res.status = 200

-----------------------------------------------------------------------------
(* C14 *)

\* The circuit types whose load has succeeded so far.
LoadedSoFar == {c \in CircuitTypes : Holders(c) # {}}

\* The elements of a sequence.
Range(seq) == {seq[k] : k \in DOMAIN seq}

\* Request i is a GET answered in this step.
Answers(i, route) == Free(i) /\ reqs'[i].route = route

\* The response of this step reports the cache exactly, and the step leaves
\* the cache alone.
ReportsCache(i) ==
    /\ Range(reqs'[i].res.loaded) = LoadedSoFar
    /\ reqs'[i].res.loaded = MapKeys(circuits)
    /\ circuits' = circuits

\* C14 (as claimed): a GET /health response has loadedCircuits equal to the
\* set of circuit types loaded so far, a GET /circuits response has the keys
\* circuits and loaded with loaded equal to that set, whatever the state of
\* the artifact directory (a missing directory included), and neither
\* changes the cache.
C14_Step ==
    \A i \in ReqIds :
        /\ Answers(i, "health") =>
              "loadedCircuits" \in reqs'[i].res.keys /\ ReportsCache(i)
        /\ Answers(i, "circuits") =>
              {"circuits", "loaded"} \subseteq reqs'[i].res.keys /\ ReportsCache(i)

C14_ExactReport == [][C14_Step]_vars

\* The part of C14 the code keeps: every GET /health, and every GET /circuits
\* made while the artifact directory exists.
C14_StepWithDirectory ==
    \A i \in ReqIds :
        /\ Answers(i, "health") =>
              "loadedCircuits" \in reqs'[i].res.keys /\ ReportsCache(i)
        /\ (Answers(i, "circuits") /\ dirExists) =>
              {"circuits", "loaded"} \subseteq reqs'[i].res.keys /\ ReportsCache(i)

C14_ExactReportWithDirectory == [][C14_StepWithDirectory]_vars

-----------------------------------------------------------------------------
(* C19 *)

\* Nothing has been removed from the artifact directory: it exists, every
\* file it started with is there, and each change so far touched another
\* path (so each one added a file or rewrote one).
NothingRemoved ==
    /\ dirExists
    /\ \A p \in Paths : InitFiles[p] # "absent" => files[p] # "absent"
    /\ Cardinality({p \in Paths : files[p] # InitFiles[p]}) = fsChanges

\* C19 (as claimed): as long as nothing has been removed from the artifact
\* directory, every circuit type in the `loaded` list of a GET /circuits
\* response is also in its `circuits` list, whatever the circuit type's name
\* (names that contain '.wasm' included).
C19_Step ==
    \A i \in ReqIds :
        (Answers(i, "circuits") /\ NothingRemoved) =>
            Range(reqs'[i].res.loaded) \subseteq reqs'[i].res.circuits

C19_LoadedListed == [][C19_Step]_vars

\* The part of C19 the code keeps: the circuit types whose name does not
\* contain '.wasm'.
C19_StepPlainNames ==
    \A i \in ReqIds :
        (Answers(i, "circuits") /\ NothingRemoved) =>
            \A c \in Range(reqs'[i].res.loaded) :
                IndexOf(c, ".wasm") = 0 => c \in reqs'[i].res.circuits

C19_PlainNamesListed == [][C19_StepPlainNames]_vars

-----------------------------------------------------------------------------
(* C18 *)

\* How far a request is: each step of a handler moves it on.
Rank(pc) ==
    CASE pc = "idle" -> 0
      [] pc = "pending" -> 1
      [] pc \in {"proving", "exporting"} -> 2
      [] pc = "verifying" -> 3
      [] pc = "done" -> 4

\* Request i after the next step of its handler, as the handler's code for
\* the place where it stands computes it; the request itself where there is
\* no such code.
StepOf(i) ==
    LET r == reqs[i]
    IN  CASE r.pc = "pending" /\ r.route = "prove" ->
                PostProve(r, circuits, files, nextId, InFlight(i)).req
          [] r.pc = "pending" /\ r.route = "verify" ->
                PostVerify(r, circuits, files, nextId, InFlight(i)).req
          [] r.pc = "proving" -> PostProveSettled(r, files)
          [] r.pc = "exporting" -> PostVerifyExported(r, files)
          [] r.pc = "verifying" -> PostVerifySettled(r)
          [] OTHER -> r

\* A request has been sent one response when it is done, and none before.
C18_Sent ==
    \A i \in ReqIds : reqs[i].sent = IF Done(i) THEN 1 ELSE 0

\* A request that has arrived and is not answered has a step to take, which
\* moves it on: the handler is never left without code to run for it.
C18_CanStep ==
    \A i \in ReqIds :
        reqs[i].pc \notin {"idle", "done"} =>
            Rank(StepOf(i).pc) > Rank(reqs[i].pc)

\* Every step that touches a request moves it on, a request in flight by the
\* step of its handler, so a request is answered after at most three steps
\* of its handler.
C18_Forward ==
    \A i \in ReqIds :
        reqs'[i] # reqs[i] =>
            /\ Rank(reqs'[i].pc) > Rank(reqs[i].pc)
            /\ reqs[i].pc # "idle" => reqs'[i] = StepOf(i)

\* C18: every request gets exactly one response: none is sent two (the
\* count of responses sent is 1 when the request is done and 0 before), and
\* no path ends without one (a request in flight, the snarkjs routine it
\* waits for having returned or thrown, always has a next step, and each
\* step moves it towards its response).
C18_OneResponse == []C18_Sent /\ []C18_CanStep /\ [][C18_Forward]_vars

\* A /prove answered after two steps and a GET /circuits answered in one.
C18_Witness ==
    \E i, j \in ReqIds :
        /\ reqs[i].route = "prove" /\ Done(i) /\ reqs[i].res.status = 200
        /\ reqs[j].route = "circuits" /\ Done(j)
        /\ reqs[i].sent = 1 /\ reqs[j].sent = 1

-----------------------------------------------------------------------------
(* C13 *)

\* Request i was answered with an error.
Failed(i) == Done(i) /\ reqs[i].res.status # 200

\* Up to which directory epoch request j has been served so far.
ServedTo(j) == IF Done(j) THEN reqs[j].e1 ELSE fsChanges

\* The artifact directory has not changed from the arrival of the earlier of
\* i and j to the response of the later (so far, for j still in flight).
StableFor(i, j) ==
    reqs[j].pc # "idle" =>
        Cardinality({reqs[i].e0, reqs[i].e1, reqs[j].e0, ServedTo(j)}) = 1

\* Request j stands, and was answered, in the service as in the twin.
AsInTwin(j) ==
    /\ reqs[j].pc = twin.reqs[j].pc
    /\ reqs[j].res = twin.reqs[j].res

\* C13 (as claimed): after a request has failed, every other /prove and
\* /verify request that has been answered got the outcome it gets in the
\* twin, in which the failing request was never made.
C13_NoPoison ==
    \A j \in ReqIds \ {Omitted} :
        (/\ Failed(Omitted)
         /\ Done(j)
         /\ reqs[j].route \in {"prove", "verify"}) =>
            reqs[j].res = twin.reqs[j].res

\* C13: a failing request is answered with a structured error, the cache
\* keeps every entry it has in the twin, and every other request stands and
\* is answered as in the twin, in which the failing request was never made:
\* every other request if the failing one did not put a circuit into the
\* cache, and every other /prove and /verify request if the artifact
\* directory has not changed from the arrival of the earlier of the two to
\* the response of the later.
C13_Isolated ==
    Failed(Omitted) =>
        /\ reqs[Omitted].res.keys = {"error"}
        /\ reqs[Omitted].res.status \in {400, 500}
        /\ \A k \in DOMAIN twin.circuits :
              /\ MapHas(circuits, twin.circuits[k].key)
              /\ Complete([key |-> twin.circuits[k].key,
                           value |-> MapGet(circuits, twin.circuits[k].key)])
        /\ \A j \in ReqIds \ {Omitted} :
              /\ ~LoadInserted(Omitted) => AsInTwin(j)
              /\ (StableFor(Omitted, j) /\ reqs[j].route \in {"prove", "verify"}) =>
                    AsInTwin(j)

\* A /prove failed on a violating witness after it had loaded the circuit,
\* and a /verify for the same circuit type, in flight at the same time, was
\* answered valid: true, as in the twin.
C13_Witness ==
    \E j \in ReqIds \ {Omitted} :
        /\ WitnessRejected(Omitted)
        /\ LoadInserted(Omitted)
        /\ j \in reqs[Omitted].peers
        /\ TypeOfReq(j) = TypeOfReq(Omitted)
        /\ reqs[j].route = "verify" /\ Done(j) /\ reqs[j].res.valid = "true"
        /\ AsInTwin(j)

-----------------------------------------------------------------------------
(* C11 *)

\* The run ended with exactly one document { proof, publicSignals } on
\* standard output, nothing on standard error and status 0.
CliSuccess ==
    /\ cli.exitCode = 0
    /\ Len(cli.stdout) = 1
    /\ cli.stdout[1].t = "json object"
    /\ Keys(cli.stdout[1]) = <<"proof", "publicSignals">>
    /\ cli.stderr = <<>>

\* The run ended with one document { error: message } on standard error, a
\* status that is not 0 and nothing on standard output.
CliFailure ==
    /\ cli.exitCode # 0
    /\ cli.stdout = <<>>
    /\ Len(cli.stderr) = 1
    /\ cli.stderr[1].t = "json object"
    /\ Keys(cli.stderr[1]) = <<"error">>
    /\ cli.stderr[1].items[1].v.t = "json string"
    /\ cli.stderr[1].items[1].v.s # <<>>

\* What makes a run fail: a missing argument, an unreadable or malformed
\* input file, a proof generation error, a serialization error.
CliFailureCause ==
    \/ \E k \in 1..3 : Falsy(Arg(cli.argv, k))
    \/ cli.inputFile \in {"absent", "garbage"}
    \/ cli.artifacts # "ok"
    \/ cli.inputFile = "unsat"
    \/ HasBigInt(cli.payload)

\* C11: a run of the CLI prover that has ended ended in exactly one of
\* success (one document { proof, publicSignals } on standard output,
\* nothing on standard error) and failure ({ error: message } on standard
\* error, non-zero status, nothing on standard output), in failure exactly
\* when an argument is missing, the input file is unreadable or malformed,
\* or proof generation or serialization fails; a run that has not ended has
\* written nothing and has a step to take.
C11_TwoOutcomes ==
    /\ cli.pc = "exited" =>
          /\ CliSuccess \/ CliFailure
          /\ ~(CliSuccess /\ CliFailure)
          /\ CliFailure <=> CliFailureCause
    /\ cli.pc # "exited" =>
          /\ cli.stdout = <<>> /\ cli.stderr = <<>>
          /\ ENABLED NextCli

\* A run failed in proof generation after it had read its input, and wrote
\* the error to standard error only.
C11_Witness ==
    /\ cli.pc = "exited"
    /\ cli.inputFile = "unsat"
    /\ cli.artifacts = "ok"
    /\ \A k \in 1..3 : ~Falsy(Arg(cli.argv, k))
    /\ CliFailure

-----------------------------------------------------------------------------
(* C12 *)

RECURSIVE Stringified(_, _, _)
\* The JSON document doc is the value v with its numeric leaves (the bigints,
\* and the numbers too when `numbers` is set) replaced by their exact decimal
\* strings, and everything else as it was.
Stringified(v, doc, numbers) ==
    IF v.t = "bigint" \/ (numbers /\ v.t = "number")
    THEN doc.t = "json string" /\ doc.s # <<>> /\ ParseDecimal(doc.s) = v.n
    ELSE IF v.t = "number"
    THEN doc.t = "json number" /\ ParseDecimal(doc.s) = v.n
    ELSE IF v.t = "string"
    THEN doc.t = "json string" /\ doc.s = v.s
    ELSE IF v.t = "array"
    THEN /\ doc.t = "json array"
         /\ Len(doc.items) = Len(v.items)
         /\ \A k \in DOMAIN v.items : Stringified(v.items[k], doc.items[k], numbers)
    ELSE IF v.t = "object"
    THEN /\ doc.t = "json object"
         /\ Keys(doc) = Keys(v)
         /\ \A k \in DOMAIN v.items :
               Stringified(v.items[k].v, doc.items[k].v, numbers)
    ELSE FALSE

RECURSIVE HasJsonNumber(_)
HasJsonNumber(doc) ==
    \/ doc.t = "json number"
    \/ doc.t = "json array" /\ \E k \in DOMAIN doc.items : HasJsonNumber(doc.items[k])
    \/ doc.t = "json object" /\ \E k \in DOMAIN doc.items : HasJsonNumber(doc.items[k].v)

\* The run has ended with its document on standard output.
CliWrote == cli.pc = "exited" /\ cli.exitCode = 0 /\ Len(cli.stdout) = 1

\* C12 (as claimed): the document of a successful run has no leaf of a native
\* numeric type: every numeric leaf of the proof and of the public signals,
\* big integer or native number, is replaced by its exact decimal string,
\* and the structure and the keys are unchanged.
C12_AllNumericStringified ==
    CliWrote =>
        /\ ~HasJsonNumber(cli.stdout[1])
        /\ Stringified(cli.result.proof, cli.stdout[1].items[1].v, TRUE)
        /\ Stringified(cli.result.publicSignals, cli.stdout[1].items[2].v, TRUE)

\* The part of C12 the code keeps: every big integer is replaced by its
\* exact decimal string, and native numbers, strings, structure and keys
\* are unchanged.
C12_BigIntsStringified ==
    CliWrote =>
        /\ Stringified(cli.result.proof, cli.stdout[1].items[1].v, FALSE)
        /\ Stringified(cli.result.publicSignals, cli.stdout[1].items[2].v, FALSE)

-----------------------------------------------------------------------------
(* C16 *)

RECURSIVE SumOf(_, _)
\* The sum of the amounts of the calls in S.
SumOf(l, S) ==
    IF S = {} THEN 0
    ELSE LET c == CHOOSE x \in S : TRUE
         IN  l.calls[c].amount + SumOf(l, S \ {c})

\* The payment attempts in state st.
CallsIn(st) == {c \in Payers : ledger.calls[c].st = st}
\* The attempts whose reservation succeeded.
Accepted == CallsIn("reserved") \cup CallsIn("committed") \cup CallsIn("released")

\* C16: whatever the sequence and interleaving of payment attempts against
\* one (wallet, serviceKey, day), the committed and the currently reserved
\* amounts, which are what the ledger's two totals hold, never sum to more
\* than maxDailySpend, no accepted amount exceeds maxPerTransaction, and two
\* reservations that hold quota at the same time never exceed the daily
\* limit together.
C16_WithinLimits ==
    ledger.open =>
        /\ ledger.committedTotal = SumOf(ledger, CallsIn("committed"))
        /\ ledger.reservedTotal = SumOf(ledger, CallsIn("reserved"))
        /\ ledger.committedTotal + ledger.reservedTotal <= ledger.maxDailySpend
        /\ \A c \in Accepted : ledger.calls[c].amount <= ledger.maxPerTransaction
        /\ \A c, d \in CallsIn("reserved") \cup CallsIn("committed") :
              c # d =>
                  ledger.calls[c].amount + ledger.calls[d].amount
                      <= ledger.maxDailySpend

\* Of two attempts that each fit the daily limit alone and exceed it
\* together, one holds its reservation and the other was rejected with
\* DailyLimitExceeded.
C16_Witness ==
    /\ ledger.open
    /\ \E c, d \in Payers :
          /\ c # d
          /\ ledger.calls[c].st = "reserved"
          /\ ledger.calls[d].st = "rejected"
          /\ ledger.calls[d].error = "DailyLimitExceeded"
          /\ ledger.calls[d].amount <= ledger.maxDailySpend - ledger.committedTotal
          /\ ledger.calls[c].amount + ledger.calls[d].amount > ledger.maxDailySpend

====
